---- MODULE Spec2Model ----
(***************************************************************************)
(* Healthcare claims validation backend (basilan/biriGov, apps/api).       *)
(*                                                                         *)
(* Two Lambda handlers are modelled:                                       *)
(*   "full"   handlers/claims_validator.py        (S3 + two DynamoDB       *)
(*            tables, AIService, ClaimsService)                            *)
(*   "simple" handlers/claims_validator_simple.py (one DynamoDB table)     *)
(*                                                                         *)
(* Modelling conventions.                                                  *)
(*  - A claim identifier CLAIM_<date>_<seq> is the pair <<date, seq>>; a   *)
(*    result identifier RESULT_<day>_<seq> is the pair <<day, seq>>.       *)
(*  - Enum-typed model fields hold enum members, as their annotations      *)
(*    declare; an enum member's .value is a plain string.  A plain string  *)
(*    held where a member is expected is written [str |-> v], a member     *)
(*    [enum |-> v].                                                        *)
(*  - Storage calls (put/get/update/query) either succeed or raise a       *)
(*    ClientError; a read returns what was written.                        *)
(*  - Calls to logging at INFO level have no effect.                       *)
(*  - A reasoning text is a sequence of tokens (words and numbers).        *)
(***************************************************************************)
EXTENDS Integers, Sequences, FiniteSets, TLC

(* ------------------------------ bounds -------------------------------- *)
MaxDay == 2
MaxRequests == 2
MaxTextLen == 3
MaxCalls == 3
MaxTasks == 2

(* ------------------------- program constants -------------------------- *)
MAX_CLAIM_AMOUNT == 50000
MAX_DEMO_BUDGET_USD == 50
REVIEW_CONFIDENCE == 70
MANUAL_REVIEW_COST == 20
MAX_PROCESSING_TIME_MS == 300000
BUDGET_WARNING_THRESHOLD_USD == 45

None == [none |-> TRUE]

(* Two claims of different dates with the same sequence number.           *)
ClaimIds == {<<1, 1>>, <<2, 1>>}
ResultIds == (1..MaxDay) \X {c[2] : c \in ClaimIds}

ClaimPriority == {"routine", "urgent", "emergency"}
ClaimStatus == {"submitted", "processing", "ai_review", "approved", "denied",
                "requires_human_review"}
ValidationStatus == {"approved", "denied", "partial_approval",
                     "compliance_violation", "insufficient_data"}

(* Python outcomes: a returned value or a raised exception.               *)
Ok(v) == [ok |-> TRUE, value |-> v]
Raise(e) == [ok |-> FALSE, exc |-> e]

(* ------------------------- models/healthcare_claim -------------------- *)
(* The amount rule without the upper limit of line 67: a variant that     *)
(* C3_BadAmountRejected tells apart from the rule of the source.          *)
ClaimAmountValid_NoCap(v) == v > 0

(* HealthcareClaim.validate_claim_amount_reasonable together with the     *)
(* Field(gt=0) constraint of claim_amount.                                *)
ClaimAmountValid(v) == v > 0 /\ ~(v > MAX_CLAIM_AMOUNT)

(* HealthcareClaim.parse_obj on a request body: the fields of the body    *)
(* that the handlers read are claim_id, claim_amount, priority and the    *)
(* length of medical_necessity_context (0 when absent).                   *)
ParseClaimOk(body) ==
    /\ body.kind = "object"
    /\ ClaimAmountValid(body.claim_amount)
    /\ body.priority \in ClaimPriority

(* An estimate without the surcharge for a long context and without the   *)
(* priority multiplier: a variant that C15_BusinessMetrics tells apart    *)
(* from the method of the source.                                         *)
get_estimated_processing_cost_flat(claim) == 50

(* HealthcareClaim.get_estimated_processing_cost, in thousandths of USD.  *)
(* round(base_cost, 3) is exact on these values.                          *)
get_estimated_processing_cost(claim) ==
    LET base == IF claim.context_len > 500 THEN 70 ELSE 50
    IN  IF claim.priority = "urgent" THEN (base * 12) \div 10
        ELSE IF claim.priority = "emergency" THEN (base * 15) \div 10
        ELSE base

(* utils/cost_calculator.estimate_processing_cost, in millionths of USD.  *)
estimate_processing_cost(claim) ==
    LET openai_cost == 30000 + claim.context_len * 10
        total == 50000 + openai_cost + 100000
    IN  IF claim.priority = "urgent" THEN (total * 12) \div 10
        ELSE IF claim.priority = "emergency" THEN (total * 15) \div 10
        ELSE total

(* ------------------------- utils/cost_calculator ---------------------- *)
(* Amounts are in millionths of USD.  A ledger maps a session identifier  *)
(* to None or to [total_cost, costs_by_type, operations]; costs_by_type   *)
(* is a function on the cost types recorded so far.                       *)
Providers == {"openai", "nvidia"}

(* f"{api_provider}_failed"                                               *)
FailedType(provider) ==
    IF provider = "openai" THEN "openai_failed" ELSE "nvidia_failed"

CostTypes == Providers \cup {FailedType(p) : p \in Providers}

(* extract_session_id_from_context on a call whose arguments hold a       *)
(* claim: DEMO_SESSION_<second component of the claim id>; the default    *)
(* session when no argument has a claim_id.                               *)
DefaultSession == [default |-> "DEFAULT_DEMO_SESSION"]
extract_session_id_from_context(c) ==
    IF c = None THEN DefaultSession ELSE [session |-> c.claim_id[1]]

Sessions == {[session |-> c[1]] : c \in ClaimIds} \cup {DefaultSession}

(* get_failed_api_call_cost                                               *)
get_failed_api_call_cost(provider) ==
    IF provider = "openai" THEN 10000
    ELSE IF provider = "nvidia" THEN 50000
    ELSE 10000

(* calculate_openai_cost: 0.03 per request and 0.00003 per token of the   *)
(* reasoning text, a token being four characters; a word or number of a   *)
(* model text stands for four characters.                                 *)
calculate_openai_cost(result) == 30000 + Len(result.text) * 30

(* calculate_nvidia_cost: 0.10 per check; an empty list is falsy.         *)
calculate_nvidia_cost(result) ==
    IF Len(result) > 0 THEN 100000 * Len(result) ELSE 100000

(* logger.warning / logger.error of the standard library logger, both    *)
(* enabled at the default level: keyword arguments other than exc_info,   *)
(* extra, stack_info and stacklevel are rejected with TypeError before    *)
(* any record is emitted.                                                 *)
StdLoggerCall(level, has_keyword_fields) ==
    IF has_keyword_fields THEN Raise("TypeError") ELSE Ok([level |-> level])

(* record_cost: the entry is created and updated first; then the warning  *)
(* threshold and the budget limit are looked at (lines 165-180).  The     *)
(* result holds the new ledger, whether the call returned normally and    *)
(* the log events it emitted.                                             *)
record_cost(ledger, session_id, cost_type, amount, operation) ==
    LET old == IF ledger[session_id] = None
               THEN [total_cost |-> 0, costs_by_type |-> <<>>, operations |-> <<>>]
               ELSE ledger[session_id]
        by_type == IF cost_type \in DOMAIN old.costs_by_type
                   THEN [old.costs_by_type EXCEPT ![cost_type] = @ + amount]
                   ELSE [t \in DOMAIN old.costs_by_type \cup {cost_type} |->
                            IF t = cost_type THEN amount ELSE old.costs_by_type[t]]
        new == [total_cost |-> old.total_cost + amount,
                costs_by_type |-> by_type,
                operations |-> Append(old.operations,
                                  [operation |-> operation, cost_type |-> cost_type,
                                   amount |-> amount])]
        warned == IF new.total_cost >= BUDGET_WARNING_THRESHOLD_USD * 1000000
                  THEN StdLoggerCall("warning", TRUE) ELSE Ok(None)
        failed == IF warned.ok /\ new.total_cost >= MAX_DEMO_BUDGET_USD * 1000000
                  THEN StdLoggerCall("error", TRUE) ELSE Ok(None)
    IN  [ledger |-> [ledger EXCEPT ![session_id] = new],
         ok |-> warned.ok /\ failed.ok,
         events |-> (IF warned.ok /\ warned.value # None THEN <<warned.value>> ELSE <<>>)
                    \o (IF warned.ok /\ failed.ok /\ failed.value # None
                        THEN <<failed.value>> ELSE <<>>)]

(* A reader that does not look at the ledger: a variant that             *)
(* C28_LedgerConsistent tells apart from get_session_cost of the source.  *)
get_session_cost_zero(ledger, session_id) == 0

(* cost_calculator.get_session_cost                                       *)
get_session_cost(ledger, session_id) ==
    IF ledger[session_id] # None THEN ledger[session_id].total_cost ELSE 0

(* reset_session_costs                                                    *)
reset_session_costs(ledger, session_id) ==
    IF ledger[session_id] # None THEN [ledger EXCEPT ![session_id] = None]
    ELSE ledger

(* track_api_cost(api_provider) around a call of `operation` that ended   *)
(* with `result` (a value or an exception) and cost `cost` when it        *)
(* returned.  A TypeError of record_cost in the try block is caught by    *)
(* the except clause, which records the failed cost and raises.           *)
track_api_cost(ledger, enabled, api_provider, operation, session_id, result, cost) ==
    IF ~enabled THEN [ledger |-> ledger, outcome |-> result]
    ELSE LET tried == IF result.ok
                      THEN record_cost(ledger, session_id, api_provider, cost, operation)
                      ELSE [ledger |-> ledger, ok |-> FALSE]
         IN  IF tried.ok THEN [ledger |-> tried.ledger, outcome |-> result]
             ELSE LET failed == record_cost(tried.ledger, session_id,
                                    FailedType(api_provider),
                                    get_failed_api_call_cost(api_provider), operation)
                  IN  [ledger |-> failed.ledger,
                       outcome |-> IF result.ok \/ ~failed.ok THEN Raise("TypeError")
                                   ELSE result]

(* ---------------------------- utils/decorators ------------------------ *)
(* decorators.get_session_cost: the placeholder of lines 290-294.         *)
decorators_get_session_cost(session_id) == 0

(* validate_demo_budget around an operation called with the session       *)
(* `session_id` (None when extract_session_id finds none): ValueError     *)
(* when the current cost is at or above the budget, else the operation    *)
(* is executed.  Both logs go to the structlog logger.                    *)
validate_demo_budget(enabled, session_id) ==
    IF enabled /\ session_id # None
          /\ decorators_get_session_cost(session_id) >= MAX_DEMO_BUDGET_USD * 1000000
    THEN [ok |-> FALSE, exc |-> "ValueError", executed |-> FALSE]
    ELSE [ok |-> TRUE, value |-> None, executed |-> TRUE]

(* ------------------------- services/ai_service ------------------------ *)
(* The four scenario templates of AIService._select_mock_scenario.        *)
(* Confidence is kept in tenths of a percent.                             *)
MockScenarios == <<
    [name |-> "Routine Preventive Care - Approved", status |-> "approved",
     confidence |-> 880, compliance_score |-> 92],
    [name |-> "Complex Surgery - Approved", status |-> "approved",
     confidence |-> 820, compliance_score |-> 85],
    [name |-> "Experimental Treatment - Review Required",
     status |-> "requires_human_review",
     confidence |-> 450, compliance_score |-> 55],
    [name |-> "High-Cost Denied - Insufficient Justification",
     status |-> "denied", confidence |-> 750, compliance_score |-> 25] >>

(* A selection that looks at the claim identifier: a variant that        *)
(* C16_MockDeterministic tells apart from the selection of the source.    *)
_select_mock_scenario_by_id(claim) ==
    IF claim.claim_id[1] = 1 THEN MockScenarios[1] ELSE MockScenarios[2]

(* AIService._select_mock_scenario                                        *)
_select_mock_scenario(claim) ==
    IF claim.claim_amount > 10000
    THEN (IF claim.claim_amount > 20000 THEN MockScenarios[3]
          ELSE MockScenarios[2])
    ELSE IF claim.priority = "urgent" THEN MockScenarios[2]
    ELSE (IF claim.claim_amount < 5000 THEN MockScenarios[1]
          ELSE MockScenarios[4])

(* ValidationStatus(value): the enum constructor raises ValueError for a  *)
(* string that is no member's value.                                      *)
ValidationStatusOf(value) ==
    IF value \in ValidationStatus THEN Ok(value) ELSE Raise("ValueError")

(* ValidationStatus.<NAME>: attribute access on the enum class raises     *)
(* AttributeError for a name the class does not define.                   *)
ValidationStatusMember(value) ==
    IF value \in ValidationStatus THEN Ok(value) ELSE Raise("AttributeError")

(* Reasoning texts.  Tokens: the word "confidence", numbers (tenths of a  *)
(* percent do not occur in a text: a number token n stands for the        *)
(* decimal literal n), the decision words, and the indicator words.       *)
StrongIndicators == {"clearly", "definitely", "strongly indicated", "appropriate"}
WeakIndicators == {"possibly", "might", "unclear", "insufficient"}
NumberTokens == {0, 69, 70, 100, 101}
WordTokens == {"confidence", "approved", "denied"} \cup StrongIndicators
                 \cup WeakIndicators
IsNumber(tok) == tok \in [num : NumberTokens]
Num(n) == [num |-> n]
Word(w) == [word |-> w]
Tokens == {Num(n) : n \in NumberTokens} \cup {Word(w) : w \in WordTokens}

Contains(text, w) == \E i \in 1..Len(text) : text[i] = Word(w)

Min(a, b) == IF a < b THEN a ELSE b
Max(a, b) == IF a > b THEN a ELSE b

(* re.search(r'confidence[:\s]+(\d+(?:\.\d+)?)', text.lower()): the first *)
(* occurrence of the word "confidence" that is directly followed by a     *)
(* number; 0 when there is none.                                          *)
ConfidenceMatch(text) ==
    LET hits == {i \in 1..(Len(text) - 1) :
                    text[i] = Word("confidence") /\ IsNumber(text[i + 1])}
    IN  IF hits = {} THEN 0
        ELSE CHOOSE i \in hits : \A j \in hits : i <= j

(* The extraction without min(100.0, max(0.0, ...)): a variant that       *)
(* C8_ConfidenceInRange tells apart from the extraction of the source.    *)
_extract_confidence_score_unclamped(text) ==
    LET m == ConfidenceMatch(text)
        strong_count == Cardinality({w \in StrongIndicators : Contains(text, w)})
        weak_count == Cardinality({w \in WeakIndicators : Contains(text, w)})
    IN  IF m # 0 THEN text[m + 1].num * 10
        ELSE IF strong_count > weak_count THEN 750 + strong_count * 50
        ELSE 600 - weak_count * 50

(* AIService._extract_confidence_score; result in tenths of a percent.    *)
_extract_confidence_score(text) ==
    LET m == ConfidenceMatch(text)
        strong_count == Cardinality({w \in StrongIndicators : Contains(text, w)})
        weak_count == Cardinality({w \in WeakIndicators : Contains(text, w)})
    IN  IF m # 0 THEN Min(1000, Max(0, text[m + 1].num * 10))
        ELSE IF strong_count > weak_count THEN 750 + strong_count * 50
        ELSE 600 - weak_count * 50

(* AIService._determine_validation_status.                                *)
_determine_validation_status(text, confidence) ==
    IF Contains(text, "approved") /\ confidence >= 700
    THEN ValidationStatusMember("approved")
    ELSE IF Contains(text, "denied") /\ confidence >= 700
    THEN ValidationStatusMember("denied")
    ELSE IF confidence < 600
    THEN ValidationStatusMember("requires_human_review")
    ELSE IF confidence >= 750 THEN ValidationStatusMember("approved")
    ELSE ValidationStatusMember("requires_human_review")

(* ----------------------------- requests ------------------------------- *)
(* Claim data of a submission: one input per mock scenario and per       *)
(* priority, with and without clinical context, one whose context is so   *)
(* long that the estimate exceeds the demo budget, and the invalid ones.  *)
ClaimInputs == {
    [claim_amount |-> 4000, priority |-> "routine", context_len |-> 0],
    [claim_amount |-> 4000, priority |-> "urgent", context_len |-> 600],
    [claim_amount |-> 7000, priority |-> "emergency", context_len |-> 60],
    [claim_amount |-> 15000, priority |-> "routine", context_len |-> 60],
    [claim_amount |-> 25000, priority |-> "routine", context_len |-> 0],
    [claim_amount |-> 4000, priority |-> "routine", context_len |-> 5000000],
    [claim_amount |-> 0, priority |-> "routine", context_len |-> 0],
    [claim_amount |-> 50001, priority |-> "routine", context_len |-> 0],
    [claim_amount |-> 4000, priority |-> "invalid_priority", context_len |-> 0] }

(* Request bodies: the key absent, a JSON null, text that is not JSON, or *)
(* a JSON object.                                                         *)
OddBodies == {[kind |-> "absent"], [kind |-> "null"], [kind |-> "malformed"]}
FullBodies ==
    {[kind |-> "object", claim_id |-> c, claim_amount |-> i.claim_amount,
      priority |-> i.priority, context_len |-> i.context_len] :
        c \in ClaimIds, i \in ClaimInputs}

Methods == {"POST", "GET", "PUT", "absent"}
(* pathParameters: {'claimId': id}, or no claimId.                        *)
PathClaimIds == {[id |-> c] : c \in ClaimIds} \cup {None}

FullEvents ==
    [httpMethod : {"POST"}, body : FullBodies \cup OddBodies, claimId : {None}]
    \cup
    [httpMethod : Methods \ {"POST"}, body : OddBodies, claimId : PathClaimIds]

(* Bodies of the steel-thread handler: procedure codes are digit          *)
(* sequences.                                                             *)
ProcedureCodes == {<<9, 9, 2, 1, 3>>, <<0, 1, 2, 3, 4>>, <<4, 7, 5, 6, 2>>}
SimpleAmounts == {-100, 250, 750, 1500}
SimpleBodies ==
    [kind : {"object"}, claimId : ClaimIds, procedureCode : ProcedureCodes,
     claimAmount : SimpleAmounts]

SimpleEvents ==
    [httpMethod : {"POST", "absent"}, body : SimpleBodies \cup OddBodies,
     claimId : {None}]
    \cup
    [httpMethod : {"GET", "PUT"}, body : OddBodies, claimId : PathClaimIds]

Events == FullEvents \cup SimpleEvents

(* Replies of the reasoning provider in real mode.                        *)
ProviderTexts == {
    <<Word("approved"), Word("confidence"), Num(100)>>,
    <<Word("approved"), Word("confidence"), Num(69)>>,
    <<Word("denied"), Word("confidence"), Num(70)>>,
    <<Word("possibly")>> }

(* ------------------------------- state -------------------------------- *)
VARIABLES
    handler,            \* the deployed Lambda: "full" or "simple"
    settings,           \* config.settings: USE_MOCK_AI, MOCK_AI_REALISTIC_DELAYS
    today,              \* the calendar day of datetime.utcnow()
    s3,                 \* S3 bucket: key -> document
    claims_table,       \* DynamoDB claims table: claim_id -> item
    results_table,      \* DynamoDB results table: result_id -> item
    simple_table,       \* DynamoDB table of the steel-thread handler
    pc,                 \* position of the invocation in progress
    event,              \* the event of the last invocation
    claim,              \* the HealthcareClaim of the submission in progress
    reply,              \* what the reasoning provider answered
    reasoning,          \* what get_medical_reasoning returned
    compliance_checks,  \* what validate_compliance returned
    validation_result,  \* the ValidationResult of perform_claim_validation
    resp,               \* the response the last invocation returned
    ai_calls,           \* AI steps started by the invocation in progress
    requests,           \* number of invocations so far
    _cost_tracking      \* cost_calculator._cost_tracking: session -> costs

vars == <<handler, settings, today, s3, claims_table, results_table,
          simple_table, pc, event, claim, reply, reasoning, compliance_checks,
          validation_result, resp, ai_calls, requests, _cost_tracking>>

storage == <<s3, claims_table, results_table, simple_table>>
locals == <<claim, reply, reasoning, compliance_checks, validation_result,
            ai_calls>>
config == <<handler, settings>>

ClaimKey(claim_id) == [prefix |-> "claims/", id |-> claim_id]
ResultKey(result_id) == [prefix |-> "results/", id |-> result_id]
S3Keys == {ClaimKey(c) : c \in ClaimIds} \cup {ResultKey(r) : r \in ResultIds}

(* The steel-thread handler names a claim without claimId by the time of  *)
(* submission; <<day, 0>> stands for an identifier generated on that day. *)
GeneratedId(day) == <<day, 0>>
SimpleIds == ClaimIds \cup {GeneratedId(d) : d \in 1..MaxDay}

SettingsValues ==
    {[USE_MOCK_AI |-> FALSE, MOCK_AI_REALISTIC_DELAYS |-> TRUE,
      COST_TRACKING_ENABLED |-> TRUE],
     [USE_MOCK_AI |-> TRUE, MOCK_AI_REALISTIC_DELAYS |-> TRUE,
      COST_TRACKING_ENABLED |-> TRUE],
     [USE_MOCK_AI |-> TRUE, MOCK_AI_REALISTIC_DELAYS |-> FALSE,
      COST_TRACKING_ENABLED |-> TRUE]}

(* The steel-thread handler reads no setting.                             *)
Init ==
    /\ handler \in {"full", "simple"}
    /\ settings \in (IF handler = "full" THEN SettingsValues
                     ELSE {[USE_MOCK_AI |-> TRUE, MOCK_AI_REALISTIC_DELAYS |-> TRUE,
                            COST_TRACKING_ENABLED |-> TRUE]})
    /\ today = 1
    /\ s3 = [k \in S3Keys |-> None]
    /\ claims_table = [c \in ClaimIds |-> None]
    /\ results_table = [r \in ResultIds |-> None]
    /\ simple_table = [c \in SimpleIds |-> None]
    /\ pc = "idle"
    /\ event = None
    /\ claim = None
    /\ reply = None
    /\ reasoning = None
    /\ compliance_checks = None
    /\ validation_result = None
    /\ resp = None
    /\ ai_calls = <<>>
    /\ requests = 0
    /\ _cost_tracking = [sid \in Sessions |-> None]

(* --------------------------- responses -------------------------------- *)
(* claims_validator.create_success_response                               *)
create_success_response(status_code, data) ==
    [statusCode |-> status_code,
     body |-> [success |-> TRUE, data |-> data, timestamp |-> "utcnow",
               request_id |-> "unknown"]]

(* claims_validator.create_error_response                                 *)
create_error_response(status_code, message) ==
    [statusCode |-> status_code,
     body |-> [error |-> [code |-> status_code, message |-> message,
                          timestamp |-> "utcnow", request_id |-> "unknown"]]]

(* The invocation returns: the response is recorded and the handler's     *)
(* local variables go out of scope.                                       *)
Return(r) ==
    /\ resp' = r
    /\ pc' = "idle"
    /\ UNCHANGED event
    /\ claim' = None
    /\ reply' = None
    /\ reasoning' = None
    /\ compliance_checks' = None
    /\ validation_result' = None
    /\ ai_calls' = <<>>

(* The exception passed on to the caller instead of being answered: a     *)
(* variant that C21_AlwaysResponds tells apart from the except clauses of *)
(* the source.                                                            *)
SubmissionError_Escapes(exc) == Raise(exc)

(* handle_claim_submission's except clauses: ValueError -> 400, any other *)
(* exception -> 500.                                                      *)
SubmissionError(exc) ==
    IF exc = "ValueError"
    THEN create_error_response(400, <<Word("Invalid claim data")>>)
    ELSE create_error_response(500, <<Word("Claim submission failed")>>)

(* ----------------------- services/claims_service ---------------------- *)
StorageFaults == {"none", "get_item", "get_object", "query", "get_result_object"}

(* ClaimsService.get_claim: the claim parsed from the S3 document named   *)
(* by the metadata item, or rebuilt from the metadata when the document   *)
(* is missing (NoSuchKey); None when the table has no item.               *)
get_claim(claim_id, fault) ==
    IF fault = "get_item" THEN Raise("ClientError")
    ELSE IF claims_table[claim_id] = None THEN Ok(None)
    ELSE LET metadata == claims_table[claim_id]
             s3_key == metadata.s3_document_path
         IN  IF fault = "get_object" THEN Raise("ClientError")
             ELSE IF s3[s3_key] # None
             THEN Ok([claim_id |-> s3[s3_key].claim_id,
                      status |-> [enum |-> s3[s3_key].status]])
             ELSE Ok([claim_id |-> metadata.claim_id,
                      status |-> [enum |-> metadata.status]])

(* ClaimsService.get_validation_result: query of the claim-id index,      *)
(* newest first, limit 1, then the S3 document of that item.              *)
get_validation_result(claim_id, fault) ==
    LET items == {r \in ResultIds : results_table[r] # None
                                    /\ results_table[r].claim_id = claim_id}
    IN  IF fault = "query" THEN Raise("ClientError")
        ELSE IF items = {} THEN Ok(None)
        ELSE LET newest == CHOOSE r \in items : \A q \in items :
                               results_table[q].created_at
                                   <= results_table[r].created_at
                 s3_key == results_table[newest].s3_document_path
             IN  IF fault = "get_result_object" THEN Raise("ClientError")
                 ELSE Ok(s3[s3_key])

(* ----------------------- handlers/claims_validator -------------------- *)
(* calculate_processing_progress                                          *)
calculate_processing_progress(c, result) ==
    IF result # None THEN 100
    ELSE IF c.status = [enum |-> "ai_review"] THEN 50
    ELSE IF c.status = [enum |-> "processing"] THEN 10
    ELSE 0

(* handle_claim_status_request                                            *)
handle_claim_status_request(claim_id, fault) ==
    LET c == get_claim(claim_id, fault)
        v == get_validation_result(claim_id, fault)
    IN  IF ~c.ok
        THEN create_error_response(500, <<Word("Failed to retrieve claim status")>>)
        ELSE IF c.value = None
        THEN create_error_response(404, <<Word("Claim"), [id |-> claim_id], Word("not found")>>)
        ELSE IF ~v.ok
        THEN create_error_response(500, <<Word("Failed to retrieve claim status")>>)
        ELSE create_success_response(200,
                 [claim |-> [claim_id |-> c.value.claim_id,
                             status |-> c.value.status.enum],
                  status |-> c.value.status.enum,
                  validation |-> v.value,
                  processing_progress |->
                      calculate_processing_progress(c.value, v.value)])

(* calculate_business_metrics: cost in thousandths of USD, percentages in *)
(* tenths of a percent.                                                   *)
calculate_business_metrics(c, confidence_score) ==
    [manual_review_cost_avoided |->
         MANUAL_REVIEW_COST * 1000 - get_estimated_processing_cost(c),
     processing_time_reduction |-> Min(999, ((96 * 60 - 2) * 1000) \div (96 * 60)),
     accuracy_improvement |-> Min(250, Max(0, confidence_score - 825))]

(* A budget test that never rejects: a variant that                      *)
(* C12_OverBudgetRejected tells apart from the test of the source.        *)
ExceedsDemoBudget_Never(estimated_cost) == FALSE

(* handle_claim_submission line 109.                                      *)
ExceedsDemoBudget(estimated_cost) ==
    estimated_cost > MAX_DEMO_BUDGET_USD * 1000000

(* The event arrives: lambda_handler is called.                           *)
Invoke(e) ==
    /\ pc = "idle"
    /\ requests < MaxRequests
    /\ e \in (IF handler = "full" THEN FullEvents ELSE SimpleEvents)
    /\ requests' = requests + 1
    /\ pc' = "invoked"
    /\ event' = e
    /\ resp' = None
    /\ UNCHANGED <<config, _cost_tracking, today, storage, locals>>

(* lambda_handler up to the first await of handle_claim_submission, or    *)
(* the whole of the status request.                                       *)
DispatchFull ==
    /\ pc = "invoked"
    /\ handler = "full"
    /\ UNCHANGED <<config, _cost_tracking, today, storage, requests>>
    /\ LET http_method == IF event.httpMethod = "absent" THEN "GET"
                          ELSE event.httpMethod
       IN  IF event.body.kind \in {"null", "malformed"}
           THEN Return(create_error_response(500, <<Word("Internal server error")>>))
           ELSE IF http_method = "POST"
           THEN IF ~ParseClaimOk(event.body)
                THEN Return(SubmissionError("ValueError"))
                ELSE LET c == [claim_id |-> event.body.claim_id,
                               claim_amount |-> event.body.claim_amount,
                               priority |-> event.body.priority,
                               context_len |-> event.body.context_len,
                               status |-> [enum |-> "processing"]]
                     IN  IF ExceedsDemoBudget(estimate_processing_cost(c))
                         THEN Return(create_error_response(400,
                                  <<Word("Estimated processing cost exceeds demo budget")>>))
                         ELSE /\ claim' = c
                              /\ pc' = "store_claim_s3"
                              /\ UNCHANGED <<event, resp, reply, reasoning,
                                             compliance_checks, validation_result,
                                             ai_calls>>
           ELSE IF http_method = "GET"
           THEN IF event.claimId = None
                THEN Return(create_error_response(400, <<Word("Missing claim ID in path")>>))
                ELSE \E fault \in StorageFaults :
                        Return(handle_claim_status_request(event.claimId.id, fault))
           ELSE Return(create_error_response(405,
                           <<Word("Method"), Word(http_method), Word("not allowed")>>))

(* A store_claim that swallows the failure of its first write and goes    *)
(* on: a variant that C22_StorageErrorsSurface tells apart from the       *)
(* except clauses of the source.                                          *)
StoreClaimS3_Swallows ==
    /\ pc = "store_claim_s3"
    /\ UNCHANGED <<config, _cost_tracking, today, claims_table, results_table, simple_table,
                   requests>>
    /\ \/ s3' = [s3 EXCEPT ![ClaimKey(claim.claim_id)] =
                     [claim_id |-> claim.claim_id, status |-> claim.status.enum]]
       \/ UNCHANGED s3
    /\ pc' = "store_claim_ddb"
    /\ UNCHANGED <<event, resp, locals>>

(* ClaimsService.store_claim, first write: the claim document to S3.      *)
StoreClaimS3 ==
    /\ pc = "store_claim_s3"
    /\ UNCHANGED <<config, _cost_tracking, today, claims_table, results_table, simple_table,
                   requests>>
    /\ \/ /\ s3' = [s3 EXCEPT ![ClaimKey(claim.claim_id)] =
                       [claim_id |-> claim.claim_id, status |-> claim.status.enum]]
          /\ pc' = "store_claim_ddb"
          /\ UNCHANGED <<event, resp, locals>>
       \/ /\ UNCHANGED s3
          /\ Return(SubmissionError("ClientError"))

(* ClaimsService.store_claim, second write: the metadata item.            *)
StoreClaimDDB ==
    /\ pc = "store_claim_ddb"
    /\ UNCHANGED <<config, _cost_tracking, today, s3, results_table, simple_table, requests>>
    /\ \/ /\ claims_table' = [claims_table EXCEPT ![claim.claim_id] =
                       [claim_id |-> claim.claim_id, status |-> claim.status.enum,
                        s3_document_path |-> ClaimKey(claim.claim_id)]]
          /\ pc' = "call_provider"
          /\ UNCHANGED <<event, resp, locals>>
       \/ /\ UNCHANGED claims_table
          /\ Return(SubmissionError("ClientError"))

(* ------------------ services/ai_service: the two AI steps ------------- *)
ProviderReplies == {Raise("APIError")} \cup {Ok(t) : t \in ProviderTexts}
ProviderFailed(response) == ~response.ok

FallbackText == <<Word("fallback"), Word("confidence"), Num(50)>>

(* The except branch of get_medical_reasoning (line 99): the tuple is     *)
(* built from _get_fallback_reasoning, 50.0 and                           *)
(* ValidationStatus.REQUIRES_HUMAN_REVIEW.                                *)
FallbackReasoning ==
    LET st == ValidationStatusMember("requires_human_review")
    IN  IF st.ok
        THEN Ok([text |-> FallbackText, confidence |-> 500, status |-> st.value])
        ELSE Raise(st.exc)

(* AIService._get_mock_medical_reasoning                                  *)
_get_mock_medical_reasoning(c) ==
    LET scenario == _select_mock_scenario(c)
        st == ValidationStatusOf(scenario.status)
    IN  IF st.ok
        THEN Ok([text |-> <<Word(scenario.name)>>,
                 confidence |-> scenario.confidence, status |-> st.value])
        ELSE Raise(st.exc)

(* AIService.get_medical_reasoning; the decorators around it re-raise.    *)
get_medical_reasoning(c, response) ==
    IF settings.USE_MOCK_AI THEN _get_mock_medical_reasoning(c)
    ELSE IF ~response.ok THEN FallbackReasoning
    ELSE LET confidence_score == _extract_confidence_score(response.value)
             st == _determine_validation_status(response.value, confidence_score)
         IN  IF st.ok
             THEN Ok([text |-> response.value, confidence |-> confidence_score,
                      status |-> st.value])
             ELSE FallbackReasoning

ComplianceCheck(check_type, passed) == [check_type |-> check_type, passed |-> passed]

(* AIService._get_fallback_compliance_checks                              *)
_get_fallback_compliance_checks == <<ComplianceCheck("FALLBACK_COMPLIANCE", TRUE)>>

(* AIService._get_mock_compliance_checks                                  *)
_get_mock_compliance_checks(c) ==
    LET scenario == _select_mock_scenario(c)
    IN  <<ComplianceCheck("HIPAA_PRIVACY", TRUE),
          ComplianceCheck("MEDICAL_NECESSITY", scenario.compliance_score >= 70),
          ComplianceCheck("CMS_GUIDELINES", scenario.compliance_score >= 65)>>

(* AIService.validate_compliance: _check_hipaa_compliance,                *)
(* _check_medical_necessity and _check_cms_compliance in real mode.       *)
validate_compliance(c, reasoning_text, failed) ==
    IF settings.USE_MOCK_AI THEN _get_mock_compliance_checks(c)
    ELSE IF failed THEN _get_fallback_compliance_checks
    ELSE <<ComplianceCheck("HIPAA_PRIVACY", TRUE),
           ComplianceCheck("MEDICAL_NECESSITY", c.context_len > 50),
           ComplianceCheck("CMS_GUIDELINES", TRUE)>>

AllPassed(checks) == \A i \in 1..Len(checks) : checks[i].passed

(* get_medical_reasoning line 63: the provider is called in real mode and *)
(* answers with a text or raises; the mock mode calls no provider.        *)
CallProvider ==
    /\ pc = "call_provider"
    /\ UNCHANGED <<config, _cost_tracking, today, storage, requests, event, resp, claim,
                   reasoning, compliance_checks, validation_result>>
    /\ reply' \in (IF settings.USE_MOCK_AI THEN {None} ELSE ProviderReplies)
    /\ ai_calls' = Append(ai_calls,
           [step |-> "reasoning",
            provider_failed |-> ~settings.USE_MOCK_AI /\ ProviderFailed(reply')])
    /\ pc' = "reasoning"

(* perform_claim_validation, step 1: what get_medical_reasoning does with *)
(* the provider's answer.                                                 *)
Reasoning ==
    /\ pc = "reasoning"
    /\ UNCHANGED <<config, today, storage, requests>>
    /\ LET returned == get_medical_reasoning(claim, reply)
           tracked == track_api_cost(_cost_tracking, settings.COST_TRACKING_ENABLED,
                          "openai", "get_medical_reasoning",
                          extract_session_id_from_context(claim), returned,
                          IF returned.ok THEN calculate_openai_cost(returned.value)
                          ELSE 0)
           r == tracked.outcome
       IN  /\ _cost_tracking' = tracked.ledger
           /\ IF r.ok
              THEN /\ reasoning' = r.value
                   /\ pc' = "compliance"
                   /\ UNCHANGED <<event, resp, claim, reply, compliance_checks,
                                  validation_result, ai_calls>>
              ELSE Return(SubmissionError(r.exc))

(* An empty text in place of the reasoning: a variant that                *)
(* C20_SequentialAICalls tells apart from line 182 of the source.         *)
reasoning_text_empty(returned) == <<>>

(* perform_claim_validation lines 179 and 182: the text that step 1       *)
(* returned is the argument of step 2.                                    *)
reasoning_text(returned) == returned.text

(* perform_claim_validation, step 2.                                      *)
Compliance ==
    /\ pc = "compliance"
    /\ UNCHANGED <<config, today, storage, requests>>
    /\ \E failed \in (IF settings.USE_MOCK_AI THEN {FALSE} ELSE BOOLEAN) :
         LET returned == Ok(validate_compliance(claim, reasoning_text(reasoning), failed))
             tracked == track_api_cost(_cost_tracking, settings.COST_TRACKING_ENABLED,
                            "nvidia", "validate_compliance",
                            extract_session_id_from_context(claim), returned,
                            calculate_nvidia_cost(returned.value))
             r == tracked.outcome
         IN  /\ _cost_tracking' = tracked.ledger
             /\ IF r.ok
                THEN /\ ai_calls' = Append(ai_calls,
                            [step |-> "compliance", provider_failed |-> failed,
                             reasoning |-> reasoning_text(reasoning)])
                     /\ compliance_checks' = r.value
                     /\ pc' = "build_result"
                     /\ UNCHANGED <<event, resp, claim, reply, reasoning,
                                    validation_result>>
                ELSE Return(SubmissionError(r.exc))

(* The elapsed milliseconds between start_time and end_time: the mock     *)
(* steps sleep for seconds unless MOCK_AI_REALISTIC_DELAYS is off, the    *)
(* real compliance checks sleep for 450 ms.                               *)
ProcessingTimes ==
    IF settings.USE_MOCK_AI /\ ~settings.MOCK_AI_REALISTIC_DELAYS
    THEN {0, 1} ELSE {1500}

(* ValidationResult.confidence_score: Field(ge=0.0, le=100.0) and         *)
(* validate_confidence_range, in tenths of a percent.                     *)
validate_confidence_range(v) == v >= 0 /\ v <= 1000

(* models/validation_result: the field constraints of BusinessMetrics.    *)
BusinessMetricsValid(m) ==
    /\ m.manual_review_cost_avoided >= 0
    /\ m.processing_time_reduction >= 0
    /\ m.processing_time_reduction <= 1000
    /\ m.accuracy_improvement >= 0
    /\ m.accuracy_improvement <= 1000

(* models/validation_result: the field constraints and validators of      *)
(* ValidationResult and BusinessMetrics.                                  *)
ValidationResultValid(r) ==
    /\ r.validation_status \in ValidationStatus
    /\ validate_confidence_range(r.confidence_score)
    /\ r.cost_reduction >= 0
    /\ r.processing_time_ms > 0 /\ ~(r.processing_time_ms > MAX_PROCESSING_TIME_MS)
    /\ Len(r.ai_reasoning_text) >= 1
    /\ BusinessMetricsValid(r.business_metrics)

(* The flag computed from the confidence alone: a variant that            *)
(* C1_HumanReviewFlag tells apart from line 203 of the source.            *)
RequiresHumanReview_ConfidenceOnly(confidence_score, checks) ==
    confidence_score < REVIEW_CONFIDENCE * 10

(* perform_claim_validation line 203.                                     *)
RequiresHumanReview(confidence_score, checks) ==
    confidence_score < REVIEW_CONFIDENCE * 10 \/ ~AllPassed(checks)

(* perform_claim_validation, steps 3 and 4.                               *)
BuildResult ==
    /\ pc = "build_result"
    /\ UNCHANGED <<config, _cost_tracking, today, storage, requests>>
    /\ \E processing_time_ms \in ProcessingTimes :
         LET business_metrics == calculate_business_metrics(claim, reasoning.confidence)
             r == [result_id |-> <<today, claim.claim_id[2]>>,
                   claim_id |-> claim.claim_id,
                   validation_status |-> reasoning.status,
                   confidence_score |-> reasoning.confidence,
                   cost_reduction |-> business_metrics.manual_review_cost_avoided,
                   processing_time_ms |-> processing_time_ms,
                   ai_reasoning_text |-> reasoning.text,
                   compliance_checks |-> compliance_checks,
                   created_at |-> today,
                   requires_human_review |->
                       RequiresHumanReview(reasoning.confidence, compliance_checks),
                   business_metrics |-> business_metrics]
         IN  IF ValidationResultValid(r)
             THEN /\ validation_result' = r
                  /\ pc' = "store_result_s3"
                  /\ UNCHANGED <<event, resp, claim, reply, reasoning,
                                 compliance_checks, ai_calls>>
             ELSE Return(SubmissionError("ValueError"))

(* result.to_dict() as stored: the fields the handlers read back.         *)
ResultDocument(r) ==
    [result_id |-> r.result_id, claim_id |-> r.claim_id,
     validation_status |-> r.validation_status,
     confidence_score |-> r.confidence_score,
     requires_human_review |-> r.requires_human_review,
     created_at |-> r.created_at]

(* ClaimsService.store_validation_result, first write.                    *)
StoreResultS3 ==
    /\ pc = "store_result_s3"
    /\ UNCHANGED <<config, _cost_tracking, today, claims_table, results_table, simple_table,
                   requests>>
    /\ \/ /\ s3' = [s3 EXCEPT ![ResultKey(validation_result.result_id)] =
                       ResultDocument(validation_result)]
          /\ pc' = "store_result_ddb"
          /\ UNCHANGED <<event, resp, locals>>
       \/ /\ UNCHANGED s3
          /\ Return(SubmissionError("ClientError"))

(* ClaimsService.store_validation_result, second write.                   *)
StoreResultDDB ==
    /\ pc = "store_result_ddb"
    /\ UNCHANGED <<config, _cost_tracking, today, s3, claims_table, simple_table, requests>>
    /\ \/ /\ results_table' = [results_table EXCEPT ![validation_result.result_id] =
                       [result_id |-> validation_result.result_id,
                        claim_id |-> validation_result.claim_id,
                        validation_status |-> validation_result.validation_status,
                        requires_human_review |->
                            validation_result.requires_human_review,
                        s3_document_path |-> ResultKey(validation_result.result_id),
                        created_at |-> validation_result.created_at]]
          /\ pc' = "update_status"
          /\ UNCHANGED <<event, resp, locals>>
       \/ /\ UNCHANGED results_table
          /\ Return(SubmissionError("ClientError"))

(* handle_claim_submission line 126: the new value of claim.status.       *)
NewClaimStatus(result) ==
    IF result.requires_human_review THEN [enum |-> "ai_review"]
    ELSE [str |-> result.validation_status]

(* ClaimsService.update_claim_status and the 202 response.  new_status    *)
(* .value raises AttributeError for a plain string, before the table is   *)
(* touched; update_item creates the item when the key has none.           *)
UpdateStatus ==
    /\ pc = "update_status"
    /\ UNCHANGED <<config, _cost_tracking, today, s3, results_table, simple_table, requests>>
    /\ LET new_status == NewClaimStatus(validation_result)
           claim_id == claim.claim_id
       IN  IF "enum" \notin DOMAIN new_status
           THEN /\ UNCHANGED claims_table
                /\ Return(SubmissionError("AttributeError"))
           ELSE \/ /\ claims_table' = [claims_table EXCEPT ![claim_id] =
                          IF @ = None
                          THEN [claim_id |-> claim_id, status |-> new_status.enum]
                          ELSE [@ EXCEPT !.status = new_status.enum]]
                   /\ Return(create_success_response(202,
                          [message |-> <<Word("Claim submitted for validation")>>,
                           claim_id |-> claim_id,
                           status |-> new_status.enum,
                           estimated_cost |-> estimate_processing_cost(claim)]))
                \/ /\ UNCHANGED claims_table
                   /\ Return(SubmissionError("ClientError"))

(* ------------------- handlers/claims_validator_simple ----------------- *)
(* claims_validator_simple.create_success_response                        *)
simple_create_success_response(status_code, data) ==
    [statusCode |-> status_code,
     body |-> [success |-> TRUE, data |-> data, timestamp |-> "utcnow",
               steel_thread |-> "v1.0"]]

(* claims_validator_simple.create_error_response                          *)
simple_create_error_response(status_code, message) ==
    [statusCode |-> status_code,
     body |-> [success |-> FALSE,
               error |-> [code |-> status_code, message |-> message,
                          timestamp |-> "utcnow"]]]

(* The four scenario templates of claims_validator_simple.                *)
SimpleScenarios == <<
    [name |-> "Routine Preventive Care - Approved", status |-> "approved",
     confidence |-> 880],
    [name |-> "Standard Treatment - Approved", status |-> "approved",
     confidence |-> 825],
    [name |-> "Complex Case - Requires Review", status |-> "pending",
     confidence |-> 658],
    [name |-> "Experimental Treatment - Denied", status |-> "denied",
     confidence |-> 912] >>

StartsWith(code, prefix) ==
    /\ Len(code) >= Len(prefix)
    /\ \A i \in 1..Len(prefix) : code[i] = prefix[i]

(* claims_validator_simple.select_mock_scenario                           *)
select_mock_scenario(procedure_code, claim_amount) ==
    IF StartsWith(procedure_code, <<9, 9>>)
    THEN (IF claim_amount < 500 THEN SimpleScenarios[2] ELSE SimpleScenarios[3])
    ELSE IF StartsWith(procedure_code, <<0>>) THEN SimpleScenarios[1]
    ELSE IF claim_amount > 1000 THEN SimpleScenarios[3]
    ELSE SimpleScenarios[2]

(* claims_validator_simple.generate_compliance_checks                     *)
generate_compliance_checks(scenario) ==
    <<[check_name |-> "Medical Coding Accuracy", passed |-> TRUE],
      [check_name |-> "Prior Authorization", passed |-> scenario.status # "denied"],
      [check_name |-> "Network Provider", passed |-> TRUE],
      [check_name |-> "Benefit Coverage", passed |-> scenario.status = "approved"]>>

(* The status left in lower case: a variant that C19_SimpleCreated tells  *)
(* apart from line 63 of the source.                                      *)
Upper_Unchanged(status) == status

(* str.upper() on the scenario statuses.                                  *)
Upper(status) ==
    CASE status = "approved" -> "APPROVED"
      [] status = "pending" -> "PENDING"
      [] status = "denied" -> "DENIED"

(* claims_validator_simple.generate_sophisticated_mock_validation;        *)
(* cost_reduction in hundredths of USD.                                   *)
generate_sophisticated_mock_validation(procedure_code, claim_amount, processing_time_ms) ==
    LET scenario == select_mock_scenario(procedure_code, claim_amount)
    IN  [status |-> scenario.status,
         confidence |-> scenario.confidence,
         reasoning |-> scenario.name,
         compliance_checks |-> generate_compliance_checks(scenario),
         cost_reduction |-> 2500 - 350,
         processing_time_ms |-> processing_time_ms]

(* decimal.Decimal(str(x))                                                *)
Decimal(x) == [decimal |-> x]

(* json.dumps without a default: raises TypeError on a Decimal.           *)
JsonSerializable(item) ==
    \A f \in DOMAIN item : ~(DOMAIN item[f] = {"decimal"})

SimpleProcessingTimes == {800, 2200}

(* claims_validator_simple.handle_claim_submission                        *)
simple_handle_claim_submission ==
    IF event.body.kind \in {"null", "malformed"}
    THEN /\ UNCHANGED simple_table
         /\ Return(simple_create_error_response(500, <<Word("Claim submission failed")>>))
    ELSE \E processing_time_ms \in SimpleProcessingTimes :
         LET given == event.body.kind = "object"
             claim_id == IF given THEN event.body.claimId ELSE GeneratedId(today)
             procedure_code == IF given THEN event.body.procedureCode
                               ELSE <<9, 9, 2, 1, 3>>
             claim_amount == IF given THEN event.body.claimAmount ELSE 250
             mock_result == generate_sophisticated_mock_validation(
                                procedure_code, claim_amount, processing_time_ms)
             claim_record == [claimId |-> [s |-> claim_id],
                              status |-> [s |-> Upper(mock_result.status)],
                              processed_at |-> [s |-> today],
                              ai_confidence_score |-> Decimal(mock_result.confidence)]
         IN  \/ /\ simple_table' = [simple_table EXCEPT ![claim_id] = claim_record]
                /\ Return(simple_create_success_response(201,
                       [claim_id |-> claim_id,
                        status |-> Upper(mock_result.status),
                        processing_time_ms |-> mock_result.processing_time_ms,
                        ai_confidence_score |-> mock_result.confidence,
                        business_metrics |->
                            [cost_reduction |-> mock_result.cost_reduction],
                        compliance_checks |-> mock_result.compliance_checks]))
             \/ /\ UNCHANGED simple_table
                /\ Return(simple_create_error_response(500,
                       <<Word("Claim submission failed")>>))

(* claims_validator_simple.handle_claim_status                            *)
simple_handle_claim_status ==
    /\ UNCHANGED simple_table
    /\ IF event.claimId = None
       THEN Return(simple_create_error_response(400, <<Word("Missing claim ID in path")>>))
       ELSE \/ Return(simple_create_error_response(500,
                   <<Word("Failed to retrieve claim status")>>))
            \/ IF simple_table[event.claimId.id] = None
               THEN Return(simple_create_error_response(404,
                        <<Word("Claim"), event.claimId, Word("not found")>>))
               ELSE IF JsonSerializable(simple_table[event.claimId.id])
               THEN Return(simple_create_success_response(200,
                        [claim |-> simple_table[event.claimId.id],
                         processing_complete |-> TRUE]))
               ELSE Return(simple_create_error_response(500,
                        <<Word("Failed to retrieve claim status")>>))

(* claims_validator_simple.lambda_handler                                 *)
DispatchSimple ==
    /\ pc = "invoked"
    /\ handler = "simple"
    /\ UNCHANGED <<config, _cost_tracking, today, s3, claims_table, results_table, requests>>
    /\ LET http_method == IF event.httpMethod = "absent" THEN "POST"
                          ELSE event.httpMethod
       IN  IF http_method = "POST" THEN simple_handle_claim_submission
           ELSE IF http_method = "GET" THEN simple_handle_claim_status
           ELSE /\ UNCHANGED simple_table
                /\ Return(simple_create_error_response(405,
                       <<Word("Method"), Word(http_method), Word("not allowed")>>))

(* The calendar day advances.                                             *)
Tick ==
    /\ pc = "idle"
    /\ today < MaxDay
    /\ today' = today + 1
    /\ UNCHANGED <<config, _cost_tracking, storage, pc, event, locals, resp, requests>>

Next ==
    \/ \E e \in Events : Invoke(e)
    \/ DispatchFull
    \/ DispatchSimple
    \/ StoreClaimS3
    \/ StoreClaimDDB
    \/ CallProvider
    \/ Reasoning
    \/ Compliance
    \/ BuildResult
    \/ StoreResultS3
    \/ StoreResultDDB
    \/ UpdateStatus
    \/ Tick

Spec == Init /\ [][Next]_vars

(* The steps of an invocation under way.                                  *)
HandlerStep ==
    \/ DispatchFull
    \/ DispatchSimple
    \/ StoreClaimS3
    \/ StoreClaimDDB
    \/ CallProvider
    \/ Reasoning
    \/ Compliance
    \/ BuildResult
    \/ StoreResultS3
    \/ StoreResultDDB
    \/ UpdateStatus

(* ------------- the reasoning functions on arbitrary texts ------------- *)
(* Every reasoning text of at most MaxTextLen tokens.                     *)
Texts == UNION {[1..n -> Tokens] : n \in 0..MaxTextLen}

(* A provider answer is at hand in real mode.                             *)
InitText ==
    /\ handler = "full"
    /\ settings = [USE_MOCK_AI |-> FALSE, MOCK_AI_REALISTIC_DELAYS |-> TRUE,
                   COST_TRACKING_ENABLED |-> TRUE]
    /\ today = 1
    /\ s3 = [k \in S3Keys |-> None]
    /\ claims_table = [c \in ClaimIds |-> None]
    /\ results_table = [r \in ResultIds |-> None]
    /\ simple_table = [c \in SimpleIds |-> None]
    /\ pc = "text"
    /\ event = None
    /\ claim = None
    /\ reply \in {Ok(t) : t \in Texts}
    /\ reasoning = None
    /\ compliance_checks = None
    /\ validation_result = None
    /\ resp = None
    /\ ai_calls = <<>>
    /\ requests = 0
    /\ _cost_tracking = [sid \in Sessions |-> None]

(* get_medical_reasoning line 81.                                         *)
ExtractConfidence ==
    /\ pc = "text"
    /\ reasoning' = [text |-> reply.value,
                     confidence |-> _extract_confidence_score(reply.value)]
    /\ pc' = "extracted"
    /\ UNCHANGED <<config, _cost_tracking, today, storage, requests, event, resp, claim, reply,
                   compliance_checks, validation_result, ai_calls>>

(* get_medical_reasoning line 82: the member returned, or the exception.  *)
DetermineStatus ==
    /\ pc = "extracted"
    /\ reasoning' = [text |-> reasoning.text, confidence |-> reasoning.confidence,
                     status |-> _determine_validation_status(reasoning.text,
                                                             reasoning.confidence)]
    /\ pc' = "determined"
    /\ UNCHANGED <<config, _cost_tracking, today, storage, requests, event, resp, claim, reply,
                   compliance_checks, validation_result, ai_calls>>

NextText ==
    \/ ExtractConfidence
    \/ DetermineStatus

SpecText == InitText /\ [][NextText]_vars

(* ------------------- the cost ledger called directly ------------------ *)
(* Amounts of a record_cost call: a failed call's cent and an amount that *)
(* brings a session to the budget in two calls.                           *)
CostAmounts == {10000, 25000000}
Operations == {"get_medical_reasoning", "validate_compliance"}
(* Sessions of the direct calls: one claim's session and the default one. *)
CostSessions == {[session |-> 1], DefaultSession}

(* The process has started; `event` holds the last call on the ledger and *)
(* `resp` its outcome.                                                    *)
InitCost ==
    /\ handler = "full"
    /\ settings \in [USE_MOCK_AI : {TRUE}, MOCK_AI_REALISTIC_DELAYS : {TRUE},
                     COST_TRACKING_ENABLED : BOOLEAN]
    /\ today = 1
    /\ s3 = [k \in S3Keys |-> None]
    /\ claims_table = [c \in ClaimIds |-> None]
    /\ results_table = [r \in ResultIds |-> None]
    /\ simple_table = [c \in SimpleIds |-> None]
    /\ pc = "cost"
    /\ event = None
    /\ claim = None
    /\ reply = None
    /\ reasoning = None
    /\ compliance_checks = None
    /\ validation_result = None
    /\ resp = None
    /\ ai_calls = <<>>
    /\ requests = 0
    /\ _cost_tracking = [sid \in Sessions |-> None]

(* What no call on the ledger changes.                                    *)
cost_frame == <<config, today, storage, pc, claim, reply, reasoning,
                compliance_checks, validation_result, ai_calls>>

(* await record_cost(session_id, cost_type, amount, operation)            *)
RecordCost(session_id, cost_type, amount, operation) ==
    /\ pc = "cost"
    /\ requests < MaxCalls
    /\ requests' = requests + 1
    /\ LET rc == record_cost(_cost_tracking, session_id, cost_type, amount, operation)
       IN  /\ _cost_tracking' = rc.ledger
           /\ resp' = [ok |-> rc.ok, events |-> rc.events]
    /\ event' = [call |-> "record_cost", session_id |-> session_id,
                 cost_type |-> cost_type, amount |-> amount]
    /\ UNCHANGED cost_frame

(* await reset_session_costs(session_id)                                  *)
ResetSessionCosts(session_id) ==
    /\ pc = "cost"
    /\ requests < MaxCalls
    /\ requests' = requests + 1
    /\ _cost_tracking' = reset_session_costs(_cost_tracking, session_id)
    /\ resp' = [ok |-> TRUE, events |-> <<>>]
    /\ event' = [call |-> "reset_session_costs", session_id |-> session_id]
    /\ UNCHANGED cost_frame

(* await get_session_cost(session_id): a read of the dict.                *)
GetSessionCost(session_id) ==
    /\ pc = "cost"
    /\ requests < MaxCalls
    /\ requests' = requests + 1
    /\ resp' = Ok(get_session_cost(_cost_tracking, session_id))
    /\ event' = [call |-> "get_session_cost", session_id |-> session_id]
    /\ UNCHANGED <<cost_frame, _cost_tracking>>

(* A call of an operation wrapped by validate_demo_budget.                *)
BudgetGuardedCall(session_id) ==
    /\ pc = "cost"
    /\ requests < MaxCalls
    /\ requests' = requests + 1
    /\ resp' = validate_demo_budget(settings.COST_TRACKING_ENABLED, session_id)
    /\ event' = [call |-> "validate_demo_budget", session_id |-> session_id]
    /\ UNCHANGED <<cost_frame, _cost_tracking>>

(* What a wrapped provider call ended with: for "openai" the reasoning    *)
(* with an empty text, for "nvidia" an empty list of checks, or an        *)
(* exception of the call.                                                 *)
WrappedOutcomes(api_provider) ==
    {Ok(IF api_provider = "openai" THEN [text |-> <<>>] ELSE <<>>),
     Raise("AIServiceError")}

(* calculate_api_call_cost for the two providers.                         *)
calculate_api_call_cost(provider, result) ==
    IF provider = "openai" THEN calculate_openai_cost(result)
    ELSE calculate_nvidia_cost(result)

(* A call of a function wrapped by track_api_cost(api_provider) whose     *)
(* arguments lead to the session `session_id`.                            *)
TrackedCall(api_provider, session_id, result) ==
    /\ pc = "cost"
    /\ requests < MaxCalls
    /\ requests' = requests + 1
    /\ LET tracked == track_api_cost(_cost_tracking, settings.COST_TRACKING_ENABLED,
                          api_provider, "get_medical_reasoning", session_id, result,
                          IF result.ok
                          THEN calculate_api_call_cost(api_provider, result.value)
                          ELSE 0)
       IN  /\ _cost_tracking' = tracked.ledger
           /\ resp' = tracked.outcome
    /\ event' = [call |-> "track_api_cost", api_provider |-> api_provider,
                 session_id |-> session_id, result |-> result]
    /\ UNCHANGED cost_frame

NextCost ==
    \/ \E session_id \in CostSessions, cost_type \in CostTypes, amount \in CostAmounts,
          operation \in Operations :
            RecordCost(session_id, cost_type, amount, operation)
    \/ \E session_id \in CostSessions : ResetSessionCosts(session_id)
    \/ \E session_id \in CostSessions : GetSessionCost(session_id)
    \/ \E session_id \in CostSessions \cup {None} : BudgetGuardedCall(session_id)
    \/ \E api_provider \in Providers, session_id \in CostSessions :
          \E result \in WrappedOutcomes(api_provider) :
            TrackedCall(api_provider, session_id, result)

SpecCost == InitCost /\ [][NextCost]_vars

(* ------------------ the business metrics on their own ----------------- *)
(* Confidence scores from 0 to 100 in steps of 2.5, in tenths of a        *)
(* percent.                                                               *)
ConfidenceScores == {k * 25 : k \in 0..40}

(* The claims HealthcareClaim accepts.                                    *)
ValidClaims ==
    {[claim_id |-> b.claim_id, claim_amount |-> b.claim_amount,
      priority |-> b.priority, context_len |-> b.context_len,
      status |-> [enum |-> "submitted"]] : b \in {x \in FullBodies : ParseClaimOk(x)}}

(* A valid claim and a confidence score are at hand.                      *)
InitMetrics ==
    /\ handler = "full"
    /\ settings = [USE_MOCK_AI |-> TRUE, MOCK_AI_REALISTIC_DELAYS |-> TRUE,
                   COST_TRACKING_ENABLED |-> TRUE]
    /\ today = 1
    /\ s3 = [k \in S3Keys |-> None]
    /\ claims_table = [c \in ClaimIds |-> None]
    /\ results_table = [r \in ResultIds |-> None]
    /\ simple_table = [c \in SimpleIds |-> None]
    /\ pc = "metrics"
    /\ event = None
    /\ claim \in ValidClaims
    /\ reply = None
    /\ reasoning \in [confidence : ConfidenceScores]
    /\ compliance_checks = None
    /\ validation_result = None
    /\ resp = None
    /\ ai_calls = <<>>
    /\ requests = 0
    /\ _cost_tracking = [sid \in Sessions |-> None]

(* perform_claim_validation step 3: calculate_business_metrics and the    *)
(* construction of BusinessMetrics, which raises on a field out of range. *)
ComputeMetrics ==
    /\ pc = "metrics"
    /\ LET m == calculate_business_metrics(claim, reasoning.confidence)
       IN  IF BusinessMetricsValid(m)
           THEN /\ validation_result' = [business_metrics |-> m]
                /\ pc' = "metrics_done"
           ELSE /\ validation_result' = None
                /\ pc' = "metrics_raised"
    /\ UNCHANGED <<config, _cost_tracking, today, storage, requests, event, resp,
                   claim, reply, reasoning, compliance_checks, ai_calls>>

NextMetrics == ComputeMetrics

SpecMetrics == InitMetrics /\ [][NextMetrics]_vars

(* --------------------- mock validations side by side ------------------ *)
(* No validation has run; `ai_calls` will hold, for every mock validation *)
(* run, the claim it was given and what the two steps returned.           *)
InitScenario ==
    /\ handler \in {"full", "simple"}
    /\ settings = [USE_MOCK_AI |-> TRUE, MOCK_AI_REALISTIC_DELAYS |-> TRUE,
                   COST_TRACKING_ENABLED |-> TRUE]
    /\ today = 1
    /\ s3 = [k \in S3Keys |-> None]
    /\ claims_table = [c \in ClaimIds |-> None]
    /\ results_table = [r \in ResultIds |-> None]
    /\ simple_table = [c \in SimpleIds |-> None]
    /\ pc = "scenario"
    /\ event = None
    /\ claim = None
    /\ reply = None
    /\ reasoning = None
    /\ compliance_checks = None
    /\ validation_result = None
    /\ resp = None
    /\ ai_calls = <<>>
    /\ requests = 0
    /\ _cost_tracking = [sid \in Sessions |-> None]

scenario_frame == <<config, _cost_tracking, today, storage, pc, event, claim, reply,
                    reasoning, compliance_checks, validation_result, resp>>

(* perform_claim_validation steps 1 and 2 in mock mode: the compliance    *)
(* step runs when the reasoning step has returned.                        *)
MockValidation(c) ==
    /\ handler = "full"
    /\ requests < MaxRequests
    /\ requests' = requests + 1
    /\ LET returned == _get_mock_medical_reasoning(c)
       IN  ai_calls' = Append(ai_calls,
               [claim_id |-> c.claim_id,
                claim_amount |-> c.claim_amount, priority |-> c.priority,
                reasoning |-> returned,
                compliance_checks |-> IF returned.ok
                                      THEN _get_mock_compliance_checks(c)
                                      ELSE <<>>])
    /\ UNCHANGED scenario_frame

(* generate_sophisticated_mock_validation of the simple handler; the      *)
(* processing time is drawn at random.                                    *)
SimpleMockValidation(body) ==
    /\ handler = "simple"
    /\ requests < MaxRequests
    /\ requests' = requests + 1
    /\ \E processing_time_ms \in SimpleProcessingTimes :
         LET mock_result == generate_sophisticated_mock_validation(
                                body.procedureCode, body.claimAmount, processing_time_ms)
         IN  ai_calls' = Append(ai_calls,
                 [claim_id |-> body.claimId,
                  procedure_code |-> body.procedureCode,
                  claim_amount |-> body.claimAmount,
                  status |-> mock_result.status,
                  confidence |-> mock_result.confidence,
                  reasoning |-> mock_result.reasoning,
                  compliance_checks |-> mock_result.compliance_checks])
    /\ UNCHANGED scenario_frame

NextScenario ==
    \/ \E c \in ValidClaims : MockValidation(c)
    \/ \E body \in SimpleBodies : SimpleMockValidation(body)

SpecScenario == InitScenario /\ [][NextScenario]_vars

(* ------------------- requests that overlap in time -------------------- *)
(* Requests run as coroutines of one event loop: a request is suspended   *)
(* only at an await that waits for something.  In the wrapper of          *)
(* track_api_cost that is the await of the wrapped provider call (line    *)
(* 37); record_cost contains no await, so its body runs in one piece.     *)
(* `ai_calls` holds one entry per request.                                *)
Tasks == 1..MaxTasks

(* The ledger as read at the call, not as it is when record_cost runs: a  *)
(* variant that C29_NoLostUpdate tells apart from the source.             *)
LedgerAtRecord_Stale(now, at_call) == at_call

(* record_cost lines 142-151 read the dict when they run.                 *)
LedgerAtRecord(now, at_call) == now

InitTasks ==
    /\ handler = "full"
    /\ settings = [USE_MOCK_AI |-> FALSE, MOCK_AI_REALISTIC_DELAYS |-> TRUE,
                   COST_TRACKING_ENABLED |-> TRUE]
    /\ today = 1
    /\ s3 = [k \in S3Keys |-> None]
    /\ claims_table = [c \in ClaimIds |-> None]
    /\ results_table = [r \in ResultIds |-> None]
    /\ simple_table = [c \in SimpleIds |-> None]
    /\ pc = "tasks"
    /\ event = None
    /\ claim = None
    /\ reply = None
    /\ reasoning = None
    /\ compliance_checks = None
    /\ validation_result = None
    /\ resp = None
    /\ ai_calls = [t \in Tasks |-> [state |-> "new"]]
    /\ requests = 0
    /\ _cost_tracking = [sid \in Sessions |-> None]

tasks_frame == <<config, today, storage, pc, event, claim, reply, reasoning,
                 compliance_checks, validation_result, resp, requests>>

(* Request t enters the wrapper and awaits the provider call.             *)
AwaitProvider(t, session_id, cost_type, amount) ==
    /\ pc = "tasks"
    /\ ai_calls[t].state = "new"
    /\ ai_calls' = [ai_calls EXCEPT ![t] =
           [state |-> "awaiting", session_id |-> session_id, cost_type |-> cost_type,
            amount |-> amount, at_call |-> _cost_tracking]]
    /\ UNCHANGED <<tasks_frame, _cost_tracking>>

(* The provider call of request t has returned: the wrapper goes on to    *)
(* await record_cost (line 45).                                           *)
RecordAfterAwait(t) ==
    /\ pc = "tasks"
    /\ ai_calls[t].state = "awaiting"
    /\ LET call == ai_calls[t]
           rc == record_cost(LedgerAtRecord(_cost_tracking, call.at_call),
                             call.session_id, call.cost_type, call.amount,
                             "get_medical_reasoning")
       IN  /\ _cost_tracking' = rc.ledger
           /\ ai_calls' = [ai_calls EXCEPT ![t] =
                  [state |-> "recorded", session_id |-> call.session_id,
                   cost_type |-> call.cost_type, amount |-> call.amount,
                   ok |-> rc.ok]]
    /\ UNCHANGED tasks_frame

NextTasks ==
    \/ \E t \in Tasks, session_id \in CostSessions, cost_type \in Providers,
          amount \in CostAmounts : AwaitProvider(t, session_id, cost_type, amount)
    \/ \E t \in Tasks : RecordAfterAwait(t)

SpecTasks == InitTasks /\ [][NextTasks]_vars

(* ------------------------------ claims -------------------------------- *)
(* Has the check list `checks` a check that did not pass?                 *)
SomeCheckFailed(checks) == \E i \in 1..Len(checks) : ~checks[i].passed

(* C1. Every ValidationResult produced by perform_claim_validation has    *)
(* requires_human_review true exactly when its confidence score is below  *)
(* 70 or at least one of its compliance checks has passed = false.        *)
C1_HumanReviewFlag ==
    validation_result # None =>
        (validation_result.requires_human_review
            <=> (validation_result.confidence_score < 700
                 \/ SomeCheckFailed(validation_result.compliance_checks)))

(* A result flagged only because a compliance check failed.               *)
C1_Witness ==
    /\ validation_result # None
    /\ validation_result.confidence_score >= 700
    /\ SomeCheckFailed(validation_result.compliance_checks)
    /\ validation_result.requires_human_review

(* The last invocation was a POST to the full handler that ended.         *)
SubmissionEnded ==
    /\ handler = "full"
    /\ pc = "idle"
    /\ event # None
    /\ event.httpMethod = "POST"
    /\ resp # None

BadAmountSubmission ==
    /\ handler = "full"
    /\ pc = "invoked"
    /\ event.httpMethod = "POST"
    /\ event.body.kind = "object"
    /\ (event.body.claim_amount <= 0 \/ event.body.claim_amount > 50000)

(* C3. A submission whose claim amount is not positive or exceeds 50000   *)
(* is answered by the full handler with 400; the rejection writes no      *)
(* claim document, claim metadata or validation result and starts no AI   *)
(* step.                                                                  *)
C3_BadAmountRejected ==
    [][BadAmountSubmission =>
          /\ pc' = "idle"
          /\ resp'.statusCode = 400
          /\ UNCHANGED storage
          /\ ai_calls' = <<>>]_vars

(* A submission above the cap has been answered with 400.                 *)
C3_Witness ==
    /\ SubmissionEnded
    /\ event.body.kind = "object"
    /\ event.body.claim_amount > 50000
    /\ resp.statusCode = 400
    /\ s3[ClaimKey(event.body.claim_id)] = None

(* Does the message `message` contain the words "not found"?              *)
SaysNotFound(message) == \E i \in 1..Len(message) : message[i] = Word("not found")

(* The dispatch step of a GET for a claim identifier that has no record   *)
(* in the handler's claims table, the request carrying no body.           *)
UnknownClaimGet ==
    /\ pc = "invoked"
    /\ event.httpMethod = "GET"
    /\ event.body.kind = "absent"
    /\ event.claimId # None
    /\ IF handler = "full" THEN claims_table[event.claimId.id] = None
       ELSE simple_table[event.claimId.id] = None

(* C4. In both handlers a GET for a claim identifier without a record in  *)
(* the claims table returns 404 with success = false and an error         *)
(* message containing "not found", and writes nothing.  A failure of the  *)
(* table read itself (500) is left aside.                                 *)
C4_UnknownClaimNotFound ==
    [][UnknownClaimGet =>
          /\ pc' = "idle"
          /\ UNCHANGED storage
          /\ \/ resp'.statusCode = 500
             \/ /\ resp'.statusCode = 404
                /\ "success" \in DOMAIN resp'.body
                /\ resp'.body.success = FALSE
                /\ SaysNotFound(resp'.body.error.message)]_vars

(* C5. lambda_handler dispatches on the HTTP method alone: a method other *)
(* than POST and GET yields 405 without storage access or AI call, a GET  *)
(* without claimId yields 400, and POST and GET never yield 405, whatever *)
(* the request body is (absent, null or malformed).                       *)
C5_DispatchOnMethod ==
    [][pc = "invoked" =>
          /\ event.httpMethod = "PUT" =>
                /\ pc' = "idle"
                /\ resp'.statusCode = 405
                /\ UNCHANGED storage
                /\ ai_calls' = <<>>
          /\ (event.httpMethod = "GET" /\ event.claimId = None) =>
                /\ pc' = "idle"
                /\ resp'.statusCode = 400
                /\ UNCHANGED storage
          /\ (event.httpMethod \in {"GET", "POST"} /\ pc' = "idle") =>
                resp'.statusCode # 405]_vars

(* C6. Every response body of either handler carries the envelope:        *)
(* success = true together with data on a success response, success =     *)
(* false together with an error object whose message is not empty on an   *)
(* error response.                                                        *)
C6_ResponseEnvelope ==
    resp # None =>
        /\ "success" \in DOMAIN resp.body
        /\ IF resp.statusCode \in {200, 201, 202}
           THEN resp.body.success = TRUE /\ "data" \in DOMAIN resp.body
           ELSE /\ resp.body.success = FALSE
                /\ "error" \in DOMAIN resp.body
                /\ Len(resp.body.error.message) > 0

(* C7. A failure of an AI provider call never leaves the AI service: when *)
(* the reasoning call fails, get_medical_reasoning returns the fallback   *)
(* text with confidence 50 and status requires-human-review; when the     *)
(* compliance call fails, validate_compliance returns exactly one check,  *)
(* which passed; the orchestration goes on in both cases.                 *)
C7_AIFailureMasked ==
    [][/\ (pc = "reasoning" /\ reply # None /\ ProviderFailed(reply)) =>
              /\ pc' = "compliance"
              /\ reasoning'.text = FallbackText
              /\ reasoning'.confidence = 500
              /\ reasoning'.status = "requires_human_review"
       /\ (pc = "compliance" /\ pc' = "build_result"
              /\ ai_calls'[Len(ai_calls')].provider_failed) =>
              /\ Len(compliance_checks') = 1
              /\ compliance_checks'[1].passed]_vars

(* Confidence values around the limits of the field.                      *)
ConfidenceProbes == {-1, 0, 500, 1000, 1001}

(* C8. The confidence score of every reasoning outcome lies in [0,100]:   *)
(* _extract_confidence_score returns a value in [0,100] for every text,   *)
(* the mock scenarios and the fallback use values in [0,100], and a       *)
(* ValidationResult accepts no score outside [0,100].                     *)
C8_ConfidenceInRange ==
    /\ (reasoning # None) => (reasoning.confidence >= 0 /\ reasoning.confidence <= 1000)
    /\ \A i \in 1..Len(MockScenarios) :
          MockScenarios[i].confidence >= 0 /\ MockScenarios[i].confidence <= 1000
    /\ \A v \in ConfidenceProbes :
          validate_confidence_range(v) => (v >= 0 /\ v <= 1000)

(* A text naming a confidence above 100 has been scored 100.              *)
C8_Witness ==
    /\ pc = "extracted"
    /\ \E i \in 1..Len(reasoning.text) : reasoning.text[i] = Num(101)
    /\ ConfidenceMatch(reasoning.text) # 0
    /\ reasoning.text[ConfidenceMatch(reasoning.text) + 1] = Num(101)
    /\ reasoning.confidence = 1000

(* C9. Every validation status the reasoning step returns, on the real,   *)
(* the mock and the fallback path, is a member of ValidationStatus, and   *)
(* the reasoning step returns one on each path.                           *)
C9_StatusIsMember ==
    [][pc = "reasoning" =>
          /\ pc' = "compliance"
          /\ reasoning'.status \in ValidationStatus]_vars

(* The place of a status in submitted -> processing -> ai_review ->       *)
(* approved / denied / requires_human_review.                             *)
StatusRank(status) ==
    CASE status = "submitted" -> 0
      [] status = "processing" -> 1
      [] status = "ai_review" -> 2
      [] OTHER -> 3

C11_ResultBelongsToOneClaim ==
    [][\A r \in ResultIds :
          /\ s3[ResultKey(r)] # None =>
                s3'[ResultKey(r)].claim_id = s3[ResultKey(r)].claim_id
          /\ results_table[r] # None =>
                results_table'[r].claim_id = results_table[r].claim_id]_vars

(* The dispatch step of a POST to the full handler with a valid claim     *)
(* whose estimated processing cost exceeds 50 USD.                        *)
OverBudgetSubmission ==
    /\ handler = "full"
    /\ pc = "invoked"
    /\ event.httpMethod = "POST"
    /\ event.body.kind = "object"
    /\ ParseClaimOk(event.body)
    /\ estimate_processing_cost(event.body) > 50 * 1000000

IsCall(name) == requests' = requests + 1 /\ event'.call = name

(* Has the event list `events` an event of level `level`?                 *)
HasEvent(events, level) == \E i \in 1..Len(events) : events[i].level = level

(* C13. The tracker never blocks and never lets the budget be exceeded    *)
(* silently: every record_cost call adds its amount to the session total  *)
(* and returns normally, also when the total is at or above               *)
(* MAX_DEMO_BUDGET_USD (50); a call that leaves the total at or above     *)
(* BUDGET_WARNING_THRESHOLD_USD (45) emits a warning event, and at or     *)
(* above 50 an error event too.                                           *)
C13_RecordCostWarnsNeverBlocks ==
    [][IsCall("record_cost") =>
          LET total == get_session_cost(_cost_tracking', event'.session_id)
          IN  /\ total = get_session_cost(_cost_tracking, event'.session_id)
                            + event'.amount
              /\ resp'.ok
              /\ total >= 45 * 1000000 => HasEvent(resp'.events, "warning")
              /\ total >= 50 * 1000000 => HasEvent(resp'.events, "error")]_vars

(* C14. With cost tracking enabled, a call of an operation wrapped by     *)
(* validate_demo_budget for a session whose costs recorded by the cost    *)
(* tracker are at or above MAX_DEMO_BUDGET_USD (50) raises ValueError     *)
(* and the operation is not executed.                                     *)
C14_BudgetGuardBlocks ==
    [][(/\ IsCall("validate_demo_budget")
        /\ settings.COST_TRACKING_ENABLED
        /\ event'.session_id # None
        /\ get_session_cost(_cost_tracking, event'.session_id) >= 50 * 1000000) =>
          /\ ~resp'.ok
          /\ resp'.exc = "ValueError"
          /\ ~resp'.executed]_vars

(* The estimated processing cost as the specification words it, in        *)
(* thousandths of USD: base 0.05, plus 0.02 for a context longer than 500 *)
(* characters, times 1.2 for urgent and 1.5 for emergency.                *)
StatedProcessingCost(c) ==
    LET base == 50 + (IF c.context_len > 500 THEN 20 ELSE 0)
    IN  IF c.priority = "urgent" THEN (base * 12) \div 10
        ELSE IF c.priority = "emergency" THEN (base * 15) \div 10
        ELSE base

(* C15. For every valid claim and every confidence score in [0,100],      *)
(* calculate_business_metrics yields manual_review_cost_avoided = 20      *)
(* minus the claim's estimated processing cost, which is at least 0,      *)
(* processing_time_reduction of at most 99.9, and accuracy_improvement =  *)
(* min(25, max(0, confidence - 82.5)); the construction of                *)
(* BusinessMetrics never raises.                                          *)
C15_BusinessMetrics ==
    pc \in {"metrics_done", "metrics_raised"} =>
        /\ pc = "metrics_done"
        /\ LET m == validation_result.business_metrics
           IN  /\ m.manual_review_cost_avoided = 20 * 1000 - StatedProcessingCost(claim)
               /\ m.manual_review_cost_avoided >= 0
               /\ m.processing_time_reduction <= 999
               /\ m.accuracy_improvement =
                      Min(250, Max(0, reasoning.confidence - 825))
               /\ m.accuracy_improvement >= 0 /\ m.accuracy_improvement <= 1000
               /\ m.processing_time_reduction >= 0

(* An urgent claim with a long context and full confidence: 19.916 USD    *)
(* avoided, 17.5 points of accuracy.                                      *)
C15_Witness ==
    /\ pc = "metrics_done"
    /\ claim.priority = "urgent" /\ claim.context_len > 500
    /\ reasoning.confidence = 1000
    /\ validation_result.business_metrics.manual_review_cost_avoided = 19916
    /\ validation_result.business_metrics.accuracy_improvement = 175

(* Two mock runs were given claims with equal deciding attributes.        *)
EqualClaims(a, b) ==
    IF handler = "full"
    THEN a.claim_amount = b.claim_amount /\ a.priority = b.priority
    ELSE /\ SubSeq(a.procedure_code, 1, 2) = SubSeq(b.procedure_code, 1, 2)
         /\ a.claim_amount = b.claim_amount

(* The outcome of a mock run: status, confidence and compliance checks.   *)
Outcome(a) ==
    IF handler = "full" THEN <<a.reasoning, a.compliance_checks>>
    ELSE <<a.status, a.confidence, a.compliance_checks>>

(* Both steps of the run come from one scenario template.                 *)
FromOneScenario(a) ==
    IF handler = "full"
    THEN a.reasoning.ok =>
           \E k \in 1..Len(MockScenarios) :
               /\ a.reasoning.value.status = MockScenarios[k].status
               /\ a.reasoning.value.confidence = MockScenarios[k].confidence
               /\ a.reasoning.value.text = <<Word(MockScenarios[k].name)>>
               /\ a.compliance_checks[2].passed = (MockScenarios[k].compliance_score >= 70)
               /\ a.compliance_checks[3].passed = (MockScenarios[k].compliance_score >= 65)
    ELSE \E k \in 1..Len(SimpleScenarios) :
               /\ a.status = SimpleScenarios[k].status
               /\ a.confidence = SimpleScenarios[k].confidence
               /\ a.reasoning = SimpleScenarios[k].name
               /\ a.compliance_checks[2].passed = (SimpleScenarios[k].status # "denied")
               /\ a.compliance_checks[4].passed = (SimpleScenarios[k].status = "approved")

InvalidSimpleSubmission ==
    /\ handler = "simple" /\ pc = "invoked"
    /\ event.httpMethod \in {"POST", "absent"}
    /\ event.body.kind = "object"
    /\ event.body.claimAmount <= 0

(* C17. In the simple handler a submission with invalid claim data (here: *)
(* a non-positive amount) is answered with 400, 422 or 500 and            *)
(* success = false, and leaves no record in the claims table.             *)
C17_SimpleRejectsInvalid ==
    [][InvalidSimpleSubmission =>
          /\ pc' = "idle"
          /\ resp'.statusCode \in {400, 422, 500}
          /\ resp'.body.success = FALSE
          /\ UNCHANGED simple_table]_vars

(* The simple handler is about to handle a GET for a claim that an        *)
(* earlier POST stored (the POST was answered with 201).                  *)
SimpleGetAfterPost ==
    /\ handler = "simple" /\ pc = "invoked"
    /\ event.httpMethod = "GET"
    /\ event.claimId # None
    /\ simple_table[event.claimId.id] # None

(* C18. In the simple handler, after a POST for claim id X returned 201,  *)
(* a GET for X returns 200 with success = true, a claim whose claimId is  *)
(* X, whose status is the one the POST returned and which has a           *)
(* processed_at field, and processing_complete = true.                    *)
C18_SimpleGetAfterPost ==
    [][SimpleGetAfterPost =>
          /\ pc' = "idle"
          /\ resp'.statusCode = 200
          /\ resp'.body.success = TRUE
          /\ resp'.body.data.claim.claimId = [s |-> event.claimId.id]
          /\ resp'.body.data.claim.status = simple_table[event.claimId.id].status
          /\ "processed_at" \in DOMAIN resp'.body.data.claim
          /\ resp'.body.data.processing_complete = TRUE]_vars

(* The simple handler has answered a submission with 201.                 *)
SimpleCreated ==
    /\ handler = "simple" /\ pc = "idle" /\ resp # None
    /\ resp.statusCode = 201

(* C19. Every 201 response of the simple handler echoes the submitted     *)
(* claim id, has a status among APPROVED, PENDING and DENIED, an          *)
(* ai_confidence_score in [0,100], a processing_time_ms below 5000, a     *)
(* positive business_metrics.cost_reduction and a non-empty list of       *)
(* compliance checks.                                                     *)
C19_SimpleCreated ==
    SimpleCreated =>
        LET data == resp.body.data
        IN  /\ resp.body.success = TRUE
            /\ event.body.kind = "object" => data.claim_id = event.body.claimId
            /\ data.status \in {"APPROVED", "PENDING", "DENIED"}
            /\ data.ai_confidence_score >= 0 /\ data.ai_confidence_score <= 1000
            /\ data.processing_time_ms < 5000
            /\ data.business_metrics.cost_reduction > 0
            /\ Len(data.compliance_checks) > 0

(* A submission with a claim id answered 201 with status PENDING after    *)
(* the longest processing time.                                           *)
C19_Witness ==
    /\ SimpleCreated
    /\ event.body.kind = "object"
    /\ resp.body.data.claim_id = event.body.claimId
    /\ resp.body.data.status = "PENDING"
    /\ resp.body.data.processing_time_ms = 2200

(* The compliance step of the validation under way has returned.         *)
ComplianceReturned == \E i \in 1..Len(ai_calls) : ai_calls[i].step = "compliance"

(* C20. Within one claim validation the two AI calls are strictly         *)
(* sequential: the compliance step does not start before the reasoning    *)
(* step has returned, it receives the reasoning text that step produced,  *)
(* and the metrics and the validation result are computed only after both *)
(* have returned.                                                         *)
C20_SequentialAICalls ==
    handler = "full" =>
        /\ pc \in {"call_provider", "reasoning"} =>
               reasoning = None /\ ~ComplianceReturned /\ validation_result = None
        /\ pc = "compliance" =>
               reasoning # None /\ ~ComplianceReturned /\ validation_result = None
        /\ pc = "build_result" =>
               reasoning # None /\ ComplianceReturned /\ validation_result = None
        /\ validation_result # None => reasoning # None /\ ComplianceReturned
        /\ \A i \in 1..Len(ai_calls) :
               ai_calls[i].step = "compliance" =>
                   /\ i = 2 /\ ai_calls[1].step = "reasoning"
                   /\ reasoning # None
                   /\ ai_calls[i].reasoning = reasoning.text

(* A validation in real mode whose result is built: both calls are        *)
(* logged in order and the second got the text of the first.              *)
C20_Witness ==
    /\ handler = "full" /\ ~settings.USE_MOCK_AI
    /\ validation_result # None
    /\ Len(ai_calls) = 2
    /\ ai_calls[2].step = "compliance"
    /\ ai_calls[2].reasoning = reasoning.text
    /\ ~ai_calls[1].provider_failed

(* The position of a step in an invocation.                               *)
StepRank ==
    CASE pc = "invoked" -> 1
      [] pc = "store_claim_s3" -> 2
      [] pc = "store_claim_ddb" -> 3
      [] pc = "call_provider" -> 4
      [] pc = "reasoning" -> 5
      [] pc = "compliance" -> 6
      [] pc = "build_result" -> 7
      [] pc = "store_result_s3" -> 8
      [] pc = "store_result_ddb" -> 9
      [] pc = "update_status" -> 10
      [] OTHER -> 0

FailsWith500 ==
    /\ pc' = "idle"
    /\ resp'.statusCode = 500
    /\ UNCHANGED storage

(* C22. Storage errors are re-raised by ClaimsService and make the        *)
(* submission return 500: a storage step goes on only with its write in   *)
(* place, and otherwise ends the submission with 500 and no write; when   *)
(* store_claim fails, no AI step has run or will run, the ledger is       *)
(* untouched and no validation result is stored.                          *)
C22_StorageErrorsSurface ==
    [][/\ pc = "store_claim_s3" =>
            \/ /\ pc' = "store_claim_ddb"
               /\ s3'[ClaimKey(claim.claim_id)] # None
            \/ /\ FailsWith500
               /\ ai_calls = <<>> /\ UNCHANGED _cost_tracking
       /\ pc = "store_claim_ddb" =>
            \/ /\ pc' = "call_provider"
               /\ claims_table'[claim.claim_id] # None
            \/ /\ FailsWith500
               /\ ai_calls = <<>> /\ UNCHANGED _cost_tracking
       /\ pc = "store_result_s3" =>
            \/ /\ pc' = "store_result_ddb"
               /\ s3'[ResultKey(validation_result.result_id)] # None
            \/ FailsWith500
       /\ pc = "store_result_ddb" =>
            \/ /\ pc' = "update_status"
               /\ results_table'[validation_result.result_id] # None
            \/ FailsWith500
       /\ pc = "update_status" =>
            \/ /\ pc' = "idle" /\ resp'.statusCode = 202
               /\ claims_table'[claim.claim_id].status = resp'.body.data.status
            \/ FailsWith500]_vars

(* A valid submission within the budget was answered 500 and its claim    *)
(* document is not in S3: the first write of store_claim failed.          *)
C22_Witness ==
    /\ SubmissionEnded
    /\ event.body.kind = "object" /\ ParseClaimOk(event.body)
    /\ ~ExceedsDemoBudget(estimate_processing_cost(event.body))
    /\ resp.statusCode = 500
    /\ s3[ClaimKey(event.body.claim_id)] = None
    /\ \A r \in ResultIds : results_table[r] = None

(* The metadata item names a document that is in S3.                      *)
PathResolves(item) ==
    /\ "s3_document_path" \in DOMAIN item
    /\ s3[item.s3_document_path] # None

(* C23. In every reachable storage state, also after a failure between    *)
(* the two writes of store_claim or store_validation_result, the path     *)
(* stored in every metadata record names a document that exists in S3; a  *)
(* failure between the writes leaves at most a document without a         *)
(* metadata record.                                                       *)
C23_PathsResolve ==
    /\ \A c \in ClaimIds : claims_table[c] # None =>
           /\ PathResolves(claims_table[c])
           /\ claims_table[c].s3_document_path = ClaimKey(c)
    /\ \A r \in ResultIds : results_table[r] # None =>
           /\ PathResolves(results_table[r])
           /\ results_table[r].s3_document_path = ResultKey(r)

(* A submission failed between the two writes of store_validation_result: *)
(* a result document without a metadata record.                           *)
C23_Witness ==
    /\ pc = "idle"
    /\ \E r \in ResultIds : s3[ResultKey(r)] # None /\ results_table[r] = None
    /\ \E c \in ClaimIds : claims_table[c] # None

StatedClaimStatus(result) ==
    IF result.requires_human_review THEN "ai_review" ELSE result.validation_status

C26_StatusNeedsConfidence ==
    pc = "determined" =>
        /\ reasoning.confidence < 700 =>
               reasoning.status = Ok("requires_human_review")
        /\ (reasoning.status.ok /\ reasoning.status.value \in {"approved", "denied"}) =>
               reasoning.confidence >= 700
        /\ (Contains(reasoning.text, "approved") /\ Contains(reasoning.text, "denied")
               /\ reasoning.confidence >= 700) =>
               reasoning.status = Ok("approved")

(* C27. Each of the four scenario templates is selectable: for each       *)
(* template some valid input makes the selector return it, in             *)
(* AIService._select_mock_scenario and in select_mock_scenario of the     *)
(* simple handler.                                                        *)
C27_AllTemplatesSelectable ==
    /\ \A k \in 1..Len(MockScenarios) :
           \E c \in ValidClaims : _select_mock_scenario(c) = MockScenarios[k]
    /\ \A k \in 1..Len(SimpleScenarios) :
           \E procedure_code \in ProcedureCodes, claim_amount \in SimpleAmounts :
               select_mock_scenario(procedure_code, claim_amount) = SimpleScenarios[k]

RECURSIVE SumOfAmounts(_)
(* The sum of the amounts of an operations log.                           *)
SumOfAmounts(operations) ==
    IF operations = <<>> THEN 0
    ELSE operations[1].amount + SumOfAmounts(Tail(operations))

RECURSIVE SumOfTypes(_, _)
(* The sum of the values of costs_by_type over the cost types `types`.    *)
SumOfTypes(costs_by_type, types) ==
    IF types = {} THEN 0
    ELSE LET t == CHOOSE x \in types : TRUE
         IN  costs_by_type[t] + SumOfTypes(costs_by_type, types \ {t})

RECURSIVE RecordedFor(_, _)
(* The sum of the amounts that the requests in `tasks` have recorded for  *)
(* the session `sid`.                                                     *)
RecordedFor(sid, tasks) ==
    IF tasks = {} THEN 0
    ELSE LET t == CHOOSE x \in tasks : TRUE
         IN  (IF ai_calls[t].state = "recorded" /\ ai_calls[t].session_id = sid
              THEN ai_calls[t].amount ELSE 0) + RecordedFor(sid, tasks \ {t})

(* C29. Under any interleaving of concurrent requests that call           *)
(* record_cost, for the same or for different sessions, no update to the  *)
(* cost ledger is lost: each session's total_cost is the sum of all       *)
(* amounts recorded for that session, and a record for one session never  *)
(* changes another session's entry.                                       *)
C29_NoLostUpdate ==
    /\ [](pc = "tasks" =>
            \A sid \in Sessions :
                (IF _cost_tracking[sid] = None THEN 0
                 ELSE _cost_tracking[sid].total_cost) = RecordedFor(sid, Tasks))
    /\ [][pc = "tasks" =>
            \A t \in Tasks :
                (ai_calls[t].state = "awaiting" /\ ai_calls'[t].state = "recorded") =>
                    \A sid \in Sessions \ {ai_calls[t].session_id} :
                        _cost_tracking'[sid] = _cost_tracking[sid]]_vars

(* A request has recorded a cost for a session while another request for *)
(* the same session, which began before that record, is still awaiting    *)
(* its provider call.                                                     *)
C29_Witness ==
    /\ pc = "tasks"
    /\ \E t, u \in Tasks :
          /\ ai_calls[t].state = "recorded"
          /\ ai_calls[u].state = "awaiting"
          /\ ai_calls[u].session_id = ai_calls[t].session_id
          /\ ai_calls[u].at_call[ai_calls[u].session_id] = None
          /\ _cost_tracking[ai_calls[t].session_id] # None

(* The operations of a session's entry, none when there is no entry.      *)
OperationsOf(ledger, sid) ==
    IF ledger[sid] = None THEN <<>> ELSE ledger[sid].operations

(* Exactly one operation entry, of cost type `cost_type`, was added to    *)
(* the session `sid`, and no other session changed.                       *)
AddsOneEntry(sid, cost_type) ==
    /\ Len(OperationsOf(_cost_tracking', sid)) = Len(OperationsOf(_cost_tracking, sid)) + 1
    /\ SubSeq(OperationsOf(_cost_tracking', sid), 1, Len(OperationsOf(_cost_tracking, sid)))
          = OperationsOf(_cost_tracking, sid)
    /\ OperationsOf(_cost_tracking', sid)[Len(OperationsOf(_cost_tracking', sid))].cost_type
          = cost_type
    /\ \A other \in Sessions \ {sid} : _cost_tracking'[other] = _cost_tracking[other]

(* C30. With cost tracking enabled, each call of a function wrapped by    *)
(* track_api_cost adds exactly one operation entry to exactly one session *)
(* of the ledger: under the provider's cost type when the call succeeds,  *)
(* the result being returned unchanged, and under <provider>_failed when  *)
(* it raises, the exception being re-raised after recording; with cost    *)
(* tracking disabled the ledger is left unchanged.                        *)
C30_TrackedCallAddsOneEntry ==
    [][IsCall("track_api_cost") =>
          IF settings.COST_TRACKING_ENABLED
          THEN /\ resp' = event'.result
               /\ AddsOneEntry(event'.session_id,
                      IF event'.result.ok THEN event'.api_provider
                      ELSE FailedType(event'.api_provider))
          ELSE /\ _cost_tracking' = _cost_tracking
               /\ resp' = event'.result]_vars

====
